---- MODULE Spec2Model ----
(***************************************************************************)
(* Model of the homework tracker's store (assignments.json) and of the     *)
(* operations that read and replace it:                                    *)
(*   canvas_sync.sync            - merge of the Canvas snapshot            *)
(*   check_notifications.run_checks - milestone reminders                  *)
(*   homework_tracker.Handler    - POST / PATCH / DELETE of /api/assignments*)
(*   homework_tracker._do_canvas_sync / start_canvas_sync - sync threads   *)
(* Dates are day numbers; a Canvas due_at is a UTC (day, hour) stamp.      *)
(***************************************************************************)
EXTENDS Integers, Sequences, FiniteSets, TLC

VARIABLES
    doc,        \* what assignments.json parses to: "ok", "invalid_json", "not_object"
    store,      \* the "assignments" list of assignments.json
    nextId,     \* uuid4 never repeats: the next id to hand out
    op,         \* the operation that produced this state
    predoc,     \* the doc that operation found
    pre,        \* the store that operation loaded
    canvas,     \* sync: what Canvas holds and the request that failed, if any
    raw,        \* sync: the raw upcoming entries fetched from Canvas
    done,       \* sync: submitted_canvas_ids
    today,      \* sync, run_checks: date.today()
    req,        \* POST / PATCH / DELETE: the request
    summary,    \* sync: the returned summary dict
    fired,      \* run_checks: the notifications sent, in order
    status,     \* how the operation ended: "ok", "raised", "write_failed", "bad_request"
    sent,       \* how many times each (id, canvas_id, tag) was sent so far
    steps,      \* number of operations so far
    deleted,    \* the (id, canvas_id) of the records DELETE removed since the last sync
    running,    \* _sync_state["running"]
    thread,     \* the sync threads: where each one is, what it fetched and loaded
    checker,    \* a run_checks process running beside them
    wrote,      \* the (id, tag) pairs that process wrote to the store
    partial,    \* the readers that loaded the file while a save had it open
    posted,     \* the ids of the records made by POST beside the threads
    sync_state, \* _sync_state: "result", "error" and "last_sync"
    last_good,  \* the result and the stamp of the last sync that succeeded
    channels,   \* how the banner command and the phone push behave
    pushed      \* run_checks: the phone pushes attempted, in order

seqVars == <<doc, store, nextId, op, predoc, pre, canvas, raw, done, today, req,
             summary, fired, status, sent, steps, deleted>>

threadVars == <<running, thread, checker, wrote, partial, posted, sync_state,
               last_good>>

envVars == <<channels, pushed>>

vars == <<seqVars, threadVars, envVars>>

----------------------------------------------------------------------------
(* Bounds of the model *)

MaxId == 3
MaxCid == 2
MaxUpcoming == 2
MaxDay == 4
MaxSteps == 3
MaxThreads == 2

(* Values the program distinguishes *)

NoCanvasId == 0
InvalidDate == -1
LocalOffsetHours == -5

Ids == 1..MaxId
CanvasIds == 1..MaxCid
Days == 0..MaxDay
Titles == {"Essay", "Quiz"}
Courses == {"ENG101", "MATH2"}
Tags == {"3_days", "1_day", "morning"}

(* A Canvas due_at: null, or an ISO timestamp in UTC *)
NullDueAt == [kind |-> "null", day |-> 0, hour |-> 0]
Stamp(d, h) == [kind |-> "stamp", day |-> d, hour |-> h]
DueAts == {NullDueAt, Stamp(MaxDay, 2), Stamp(MaxDay, 12)}

(* The shapes of upcoming entry the snapshots are drawn from *)
EntryShapes ==
    { [name |-> "Essay", course |-> "ENG101", due_at |-> Stamp(MaxDay, 2)],
      [name |-> "Quiz",  course |-> "ENG101", due_at |-> Stamp(MaxDay, 2)],
      [name |-> "Essay", course |-> "MATH2",  due_at |-> Stamp(MaxDay, 2)],
      [name |-> "Essay", course |-> "ENG101", due_at |-> Stamp(MaxDay, 12)],
      [name |-> "Essay", course |-> "ENG101", due_at |-> NullDueAt] }

RawEntries ==
    { [id |-> c, name |-> s.name, course |-> s.course, due_at |-> s.due_at] :
        c \in CanvasIds, s \in EntryShapes }

SeqsUpTo(S, n) == UNION { [1..k -> S] : k \in 0..n }

NoReq == [kind |-> "none"]
NoSummary == [ok |-> FALSE]

(* due_date values only a file written outside the program can hold:       *)
(* "due_date": null (or a number), and a record without the key            *)
NullDate == -2
NoDate == -3

(* What assignments.json can parse to: an object with an "assignments"     *)
(* list, text that is not JSON, or JSON that is not such an object         *)
DocKinds == {"ok", "invalid_json", "not_object"}

----------------------------------------------------------------------------
(* canvas_sync._get_all and the requests of one sync *)

Buckets == {"upcoming", "submitted", "graded"}

(* how a request can fail: HTTPError with code other than 401, HTTPError   *)
(* 401, URLError (no connection), and a timeout while the response is read *)
Outcomes == {"http_error", "unauthorized", "unreachable", "read_timeout"}

(* the exception _get_all lets out: HTTPError and URLError are turned into *)
(* RuntimeError; a timeout of getresponse() / read() is raised as it is    *)
GetAllRaises(outcome) ==
    CASE outcome = "ok" -> "none"
      [] outcome \in {"http_error", "unauthorized", "unreachable"} -> "RuntimeError"
      [] outcome = "read_timeout" -> "TimeoutError"

Fault(at, course, bucket, outcome) ==
    [at |-> at, course |-> course, bucket |-> bucket, outcome |-> outcome]

NoFault == Fault("none", "none", "none", "ok")
ConfigFault == Fault("config", "none", "none", "unreadable")
CoursesFault(outcome) == Fault("courses", "none", "none", outcome)
QueryFault(course, bucket, outcome) == Fault("query", course, bucket, outcome)
SaveFault == Fault("save", "none", "none", "io_error")

(* the per-course query that reports a finished assignment: the model      *)
(* gives each Canvas id one course and one bucket                          *)
ReportedBy(c) ==
    IF c % 2 = 1 THEN <<"ENG101", "submitted">> ELSE <<"MATH2", "graded">>

(* try: raw = _get_all(...)  except RuntimeError: raw = [] / pass *)
Skipped(f) == f.at = "query" /\ GetAllRaises(f.outcome) = "RuntimeError"

(* an exception that leaves sync() before the load of line 217 *)
FetchAborts(f) ==
    \/ f.at \in {"config", "courses"}
    \/ f.at = "query" /\ GetAllRaises(f.outcome) # "RuntimeError"

(* a fetch that takes the entries of a course whose request failed *)
FetchedUpcomingDespiteFault(r, f, course_map) ==
    SelectSeq(r, LAMBDA a : a.course \in course_map)

(* what the per-course loops collect from what Canvas holds: the answers  *)
(* of the courses of course_map, but for the request that failed           *)
FetchedUpcoming(r, f, course_map) ==
    SelectSeq(r, LAMBDA a :
        /\ a.course \in course_map
        /\ ~(f.at = "query" /\ f.bucket = "upcoming" /\ a.course = f.course))

FetchedDone(d, f, course_map) ==
    { c \in d :
        /\ ReportedBy(c)[1] \in course_map
        /\ ~(f.at = "query" /\ f.bucket # "upcoming"
                /\ ReportedBy(c) = <<f.course, f.bucket>>) }

(* a count of the course names met in the upcoming list *)
CourseCountOfUpcoming(course_map, upcoming) ==
    Cardinality({ upcoming[i].course : i \in DOMAIN upcoming })

(* "courses": len(course_map) *)
CourseCount(course_map, upcoming) == Cardinality(course_map)

NoCanvas == [courses |-> {}, upcoming |-> <<>>, done |-> {}, fault |-> NoFault]

----------------------------------------------------------------------------
(* canvas_sync._parse_due_date: UTC stamp to the local calendar day *)

_parse_due_date(due_at) ==
    IF due_at.kind # "stamp" THEN InvalidDate
    ELSE LET h == due_at.hour + LocalOffsetHours
         IN  IF h < 0 THEN due_at.day - 1
             ELSE IF h >= 24 THEN due_at.day + 1
             ELSE due_at.day

(* a filter that lets entries already past through *)
KeepsEntryPastDue(a, tday) == _parse_due_date(a.due_at) # InvalidDate

(* sync, step 2: the entries that make it into canvas_upcoming *)
KeepsEntry(a, tday) ==
    LET due_date == _parse_due_date(a.due_at)
    IN  /\ due_date # InvalidDate
        /\ ~(due_date < tday)

UpcomingEntry(a) ==
    [canvas_id |-> a.id, title |-> a.name, course |-> a.course,
     due_date |-> _parse_due_date(a.due_at)]

RECURSIVE CanvasUpcoming(_, _)
CanvasUpcoming(rawList, tday) ==
    IF rawList = <<>> THEN <<>>
    ELSE LET a == Head(rawList)
             rest == CanvasUpcoming(Tail(rawList), tday)
         IN  IF KeepsEntry(a, tday) THEN <<UpcomingEntry(a)>> \o rest ELSE rest

----------------------------------------------------------------------------
(* sync, step 3: merge into the local data *)

NoSource == "absent"

Range(f) == { f[i] : i \in DOMAIN f }

(* a merge that carries over only the manual rows still to be done *)
ManualDropsCompleted(existing) ==
    SelectSeq(existing, LAMBDA row : row.canvas_id = NoCanvasId /\ ~row.completed)

Manual(existing) == SelectSeq(existing, LAMBDA row : row.canvas_id = NoCanvasId)

(* the keys of by_canvas_id, in dict order (first insertion) *)
CanvasKeys(existing) ==
    LET F[i \in 0..Len(existing)] ==
            IF i = 0 THEN <<>>
            ELSE LET c == existing[i].canvas_id
                 IN  IF c = NoCanvasId \/ c \in Range(F[i-1]) THEN F[i-1]
                     ELSE Append(F[i-1], c)
    IN  F[Len(existing)]

(* by_canvas_id[row["canvas_id"]] = row: a later row replaces an earlier one *)
ByCanvasId(existing) ==
    [ c \in Range(CanvasKeys(existing)) |->
        LET last == CHOOSE i \in DOMAIN existing :
                        /\ existing[i].canvas_id = c
                        /\ \A j \in DOMAIN existing :
                               existing[j].canvas_id = c => j <= i
        IN  existing[last] ]

Changed(row, ca) ==
    \/ row.title # ca.title
    \/ row.course # ca.course
    \/ row.due_date # ca.due_date

(* a refresh that rebuilds the row instead of updating it in place *)
RefreshRowRebuilds(row, ca) ==
    [row EXCEPT !.title = ca.title, !.course = ca.course,
                !.due_date = ca.due_date, !.source = "canvas",
                !.notifications_sent = <<>>]

RefreshRow(row, ca) ==
    [row EXCEPT !.title = ca.title, !.course = ca.course,
                !.due_date = ca.due_date, !.source = "canvas"]

(* a created row that is not tagged with its source *)
NewRowUntagged(id, ca) ==
    [id |-> id, canvas_id |-> ca.canvas_id, title |-> ca.title,
     course |-> ca.course, due_date |-> ca.due_date,
     notifications_sent |-> <<>>, source |-> NoSource, completed |-> FALSE]

NewRow(id, ca) ==
    [id |-> id, canvas_id |-> ca.canvas_id, title |-> ca.title,
     course |-> ca.course, due_date |-> ca.due_date,
     notifications_sent |-> <<>>, source |-> "canvas", completed |-> FALSE]

(* One iteration of "for ca in canvas_upcoming".  An entry of out that is  *)
(* shared holds the dict object of by_canvas_id, not a copy of it.         *)
UpcomingStep(st, ca) ==
    LET cid == ca.canvas_id
    IN  IF cid \in DOMAIN st.by
        THEN [st EXCEPT
                !.by = [st.by EXCEPT ![cid] = RefreshRow(st.by[cid], ca)],
                !.out = Append(st.out, [shared |-> TRUE, row |-> st.by[cid]]),
                !.updated = IF Changed(st.by[cid], ca) THEN @ + 1 ELSE @]
        ELSE [st EXCEPT
                !.out = Append(st.out, [shared |-> FALSE, row |-> NewRow(st.next, ca)]),
                !.added = @ + 1,
                !.next = @ + 1]

RECURSIVE ProcessUpcoming(_, _)
ProcessUpcoming(st, upcoming) ==
    IF upcoming = <<>> THEN st
    ELSE ProcessUpcoming(UpcomingStep(st, Head(upcoming)), Tail(upcoming))

(* what becomes of a tracked row that is no longer upcoming *)
Disposition(row, submitted) ==
    IF row.canvas_id \in submitted THEN "complete"
    ELSE IF row.completed THEN "keep"
    ELSE "remove"

VanishedStep(st, cid, processed_ids, submitted) ==
    IF cid \in processed_ids THEN st
    ELSE LET row == st.by[cid]
             d == Disposition(row, submitted)
         IN  IF d = "complete"
             THEN [st EXCEPT
                     !.kept = Append(@, [row EXCEPT !.completed = TRUE]),
                     !.auto_completed = IF row.completed THEN @ ELSE @ + 1]
             ELSE IF d = "keep"
             THEN [st EXCEPT !.kept = Append(@, row)]
             ELSE [st EXCEPT !.removed = @ + 1]

RECURSIVE ProcessVanished(_, _, _, _)
ProcessVanished(st, keys, processed_ids, submitted) ==
    IF keys = <<>> THEN st
    ELSE ProcessVanished(VanishedStep(st, Head(keys), processed_ids, submitted),
                         Tail(keys), processed_ids, submitted)

(* the rows json.dump writes for new_canvas_rows *)
Written(st) ==
    [ i \in DOMAIN st.out |->
        IF st.out[i].shared THEN st.by[st.out[i].row.canvas_id] ELSE st.out[i].row ]
    \o st.kept

Merge(existing, upcoming, submitted, firstId) ==
    LET st0 == [by |-> ByCanvasId(existing), out |-> <<>>, kept |-> <<>>,
                added |-> 0, updated |-> 0, removed |-> 0, auto_completed |-> 0,
                next |-> firstId]
        st1 == ProcessUpcoming(st0, upcoming)
        processed_ids == { upcoming[i].canvas_id : i \in DOMAIN upcoming }
        st2 == ProcessVanished(st1, CanvasKeys(existing), processed_ids, submitted)
        new_canvas_rows == Written(st2)
    IN  [rows |-> Manual(existing) \o new_canvas_rows,
         next |-> st2.next,
         summary |-> [ok |-> TRUE, added |-> st2.added, updated |-> st2.updated,
                      removed |-> st2.removed,
                      auto_completed |-> st2.auto_completed,
                      total_canvas |-> Len(new_canvas_rows)]]

----------------------------------------------------------------------------
(* check_notifications.run_checks *)

(* the day-before reminder tested one day early *)
MilestoneForDayEarly(days_until) ==
    IF days_until = 3 THEN "3_days"
    ELSE IF days_until = 2 THEN "1_day"
    ELSE IF days_until = 0 THEN "morning"
    ELSE "none"

(* days_until == 3 / 1 / 0 and the tag recorded for it *)
MilestoneFor(days_until) ==
    IF days_until = 3 THEN "3_days"
    ELSE IF days_until = 1 THEN "1_day"
    ELSE IF days_until = 0 THEN "morning"
    ELSE "none"

(* date.fromisoformat raises ValueError on a string that is no date and    *)
(* row["due_date"] raises KeyError without the key: both are caught        *)
DueDateSkipped(row) == row.due_date \in {InvalidDate, NoDate}

(* date.fromisoformat raises TypeError on what is not a string: not caught *)
DueDateRaises(row) == row.due_date = NullDate

(* a pass that does not consult notifications_sent *)
TagToSendIgnoresSent(row, tday) ==
    IF DueDateSkipped(row) THEN "none"
    ELSE LET days_until == row.due_date - tday
         IN  IF days_until < 0 THEN "none" ELSE MilestoneFor(days_until)

(* a pass that counts the days since the due date *)
TagToSendDaysSince(row, tday) ==
    IF DueDateSkipped(row) THEN "none"
    ELSE LET days_until == tday - row.due_date
         IN  IF days_until < 0 THEN "none"
             ELSE IF MilestoneFor(days_until) \in Range(row.notifications_sent)
                  THEN "none"
                  ELSE MilestoneFor(days_until)

(* a pass that leaves completed rows alone *)
TagToSendSkipsCompleted(row, tday) ==
    IF DueDateSkipped(row) \/ row.completed THEN "none"
    ELSE LET days_until == row.due_date - tday
         IN  IF days_until < 0 THEN "none"
             ELSE IF MilestoneFor(days_until) \in Range(row.notifications_sent)
                  THEN "none"
                  ELSE MilestoneFor(days_until)

(* the tag the pass sends for one row, or "none" *)
TagToSend(row, tday) ==
    IF DueDateSkipped(row) THEN "none"               \* except (ValueError, KeyError): continue
    ELSE LET days_until == row.due_date - tday
         IN  IF days_until < 0 THEN "none"           \* past due: continue
             ELSE IF MilestoneFor(days_until) \in Range(row.notifications_sent)
                  THEN "none"
                  ELSE MilestoneFor(days_until)

CheckedRow(row, tday) ==
    IF TagToSend(row, tday) = "none" THEN row
    ELSE [row EXCEPT !.notifications_sent = Append(@, TagToSend(row, tday))]

(* a pass that writes the file after each record it has handled *)
SavedByPassAsItGoes(rows, tday, written) ==
    [ i \in DOMAIN rows |->
        IF \A j \in 1..i : ~DueDateRaises(rows[j]) THEN CheckedRow(rows[i], tday)
        ELSE rows[i] ]

(* the list in the file after a pass: the one write, when it is reached    *)
(* and succeeds, holds every tag of the pass; otherwise the file is as it  *)
(* was                                                                     *)
SavedByPass(rows, tday, written) ==
    IF written THEN [ i \in DOMAIN rows |-> CheckedRow(rows[i], tday) ] ELSE rows

(* send_notification: what the two channels can do.  osascript runs and    *)
(* shows the banner, runs and exits with an error, or cannot be started;   *)
(* the push is not configured (no bark_key), answered, or fails            *)
BannerOutcomes == {"shown", "exit_error", "cannot_start"}
PhoneOutcomes == {"off", "pushed", "fails"}
Channels == [banner : BannerOutcomes, phone : PhoneOutcomes]

Delivering == [banner |-> "shown", phone |-> "off"]

(* subprocess.run raises when the command cannot be started, and nothing   *)
(* between it and the caller of run_checks catches that                    *)
ChannelRaises(sends, ch) == ch.banner = "cannot_start" /\ sends # <<>>

(* the calls of send_notification that return *)
Notified(sends, ch) == IF ch.banner = "cannot_start" THEN <<>> ELSE sends

(* the calls of send_phone_notification *)
Pushes(sends, ch) == IF ch.phone = "off" THEN <<>> ELSE Notified(sends, ch)

RECURSIVE Sends(_, _, _)
Sends(rows, i, tday) ==
    IF i > Len(rows) THEN <<>>
    ELSE IF DueDateRaises(rows[i]) THEN <<>>         \* the pass ends here
    ELSE LET tag == TagToSend(rows[i], tday)
         IN  (IF tag = "none" THEN <<>>
              ELSE << [pos |-> i, id |-> rows[i].id, tag |-> tag] >>)
             \o Sends(rows, i + 1, tday)

----------------------------------------------------------------------------
(* homework_tracker.Handler *)

NewManualRow(id, body) ==
    [id |-> id, canvas_id |-> NoCanvasId, title |-> body.title,
     course |-> body.course, due_date |-> body.due_date,
     notifications_sent |-> <<>>, source |-> NoSource, completed |-> FALSE]

PostBodies ==
    { [title |-> "Essay", course |-> "ENG101", due_date |-> d] :
        d \in {MaxDay - 1, InvalidDate} }

PatchBodies == {"absent", "true", "false"}

(* a PATCH without the break: every row with that id *)
PatchedEvery(rows, aid, body) ==
    IF body = "absent" THEN rows
    ELSE [ i \in DOMAIN rows |->
             IF rows[i].id = aid THEN [rows[i] EXCEPT !.completed = (body = "true")]
             ELSE rows[i] ]

(* do_PATCH: the first row with that id, and only when the body has "completed" *)
Patched(rows, aid, body) ==
    IF body = "absent" \/ ~(\E i \in DOMAIN rows : rows[i].id = aid) THEN rows
    ELSE LET first == CHOOSE i \in DOMAIN rows :
                          /\ rows[i].id = aid
                          /\ \A j \in DOMAIN rows : rows[j].id = aid => i <= j
         IN  [rows EXCEPT ![first].completed = (body = "true")]

(* the records with a canvas_id that a DELETE of aid takes out of rows *)
Removed(rows, aid) ==
    { <<rows[i].id, rows[i].canvas_id>> :
        i \in { n \in DOMAIN rows : rows[n].id = aid /\ rows[n].canvas_id # NoCanvasId } }

(* do_DELETE *)
Deleted(rows, aid) == SelectSeq(rows, LAMBDA a : a.id # aid)

----------------------------------------------------------------------------
(* The state machine.  In Spec operations do not interleave: a call acts   *)
(* in one step, leaving what it loaded, was given and returned in the      *)
(* state, and the next call starts once it has returned.                   *)

Idle ==
    /\ op = "idle"
    /\ steps < MaxSteps

(* _load_assignments / load_assignments / the load of run_checks:          *)
(* JSONDecodeError is caught, .get on what is not a dict is not            *)
Loaded(kind, rows) == IF kind = "ok" THEN rows ELSE <<>>

LoadRaises(kind) == kind = "not_object"

SentKeys == Ids \X (0..MaxCid) \X Tags

(* the count of notifications after a pass that loaded rows and sent sends *)
Counted(count, rows, sends) ==
    [ k \in SentKeys |->
        count[k] + Cardinality({ i \in DOMAIN sends :
                                   k = <<sends[i].id, rows[sends[i].pos].canvas_id,
                                         sends[i].tag>> }) ]

(* a sync thread: where it is, the locals of its sync(), the list it is    *)
(* writing, and whether another writer wrote the file since it opened it   *)
ThreadAt(pc) ==
    [pc |-> pc, existing |-> <<>>, upcoming |-> <<>>, done |-> {}, today |-> 0,
     rows |-> <<>>, overlapped |-> FALSE, result |-> NoSummary]

(* _sync_state as the module creates it: every value None.  A failure      *)
(* message is str(e) of the exception of one sync, a stamp the clock time  *)
(* one sync read: both are named by the thread they belong to.             *)
NoMessage == 0
NoTime == 0
NoSyncState == [result |-> NoSummary, error |-> NoMessage, last_sync |-> NoTime]
Message(t) == t
ClockTime(t) == t

NoThread == ThreadAt("unborn")

(* a run_checks process: where it is, the data it loaded, its today *)
CheckerAt(pc, data, day) == [pc |-> pc, data |-> data, today |-> day]

NoChecker == CheckerAt("absent", <<>>, 0)

Forget ==
    /\ op' = "idle"
    /\ predoc' = "ok"
    /\ pre' = <<>>
    /\ canvas' = NoCanvas
    /\ raw' = <<>>
    /\ done' = {}
    /\ today' = 0
    /\ req' = NoReq
    /\ summary' = NoSummary
    /\ fired' = <<>>
    /\ status' = "ok"
    /\ pushed' = <<>>
    /\ deleted' = IF op = "sync" THEN {} ELSE deleted
    /\ UNCHANGED <<doc, store, nextId, sent, steps, channels>>
    /\ UNCHANGED threadVars

(* no call yet, no thread yet *)
Quiet ==
    /\ op = "idle"
    /\ predoc = "ok"
    /\ pre = <<>>
    /\ canvas = NoCanvas
    /\ raw = <<>>
    /\ done = {}
    /\ today = 0
    /\ req = NoReq
    /\ summary = NoSummary
    /\ fired = <<>>
    /\ status = "ok"
    /\ sent = [k \in SentKeys |-> 0]
    /\ pushed = <<>>
    /\ deleted = {}
    /\ running = FALSE
    /\ thread = [t \in 1..MaxThreads |-> NoThread]
    /\ checker = NoChecker
    /\ wrote = {}
    /\ partial = {}
    /\ posted = {}
    /\ sync_state = NoSyncState
    /\ last_good = [result |-> NoSummary, last_sync |-> NoTime]

Init ==
    /\ doc = "ok"
    /\ store = <<>>
    /\ nextId = 1
    /\ steps = 0
    /\ channels = Delivering
    /\ Quiet

(* the upcoming lists the snapshots are drawn from: every list of at most *)
(* one entry, and the longer lists of entries due on the same stamp        *)
Snapshots ==
    SeqsUpTo(RawEntries, 1) \cup
    { r \in SeqsUpTo(RawEntries, MaxUpcoming) :
        \A i \in DOMAIN r : r[i].due_at = Stamp(MaxDay, 2) }

SyncDays == {MaxDay - 1, MaxDay}

(* what Canvas holds in the syncs where a per-course request fails: one    *)
(* assignment in each course, or only the first, or none                   *)
FaultSnapshots ==
    LET e == [id |-> 1, name |-> "Essay", course |-> "ENG101", due_at |-> Stamp(MaxDay, 2)]
        m == [id |-> MaxCid, name |-> "Essay", course |-> "MATH2", due_at |-> Stamp(MaxDay, 2)]
    IN  { <<>>, <<e>>, <<e, m>> }

(* the courses the course list answers with: all of them, or, for the     *)
(* small snapshots, any part of them                                       *)
CourseMaps(r, f) ==
    IF f = NoFault /\ r \in FaultSnapshots THEN SUBSET Courses ELSE {Courses}

SkippedFaults ==
    { f \in { QueryFault(c, b, o) : c \in Courses, b \in Buckets, o \in Outcomes } :
        Skipped(f) }

AbortingFaults ==
    {ConfigFault, SaveFault}
    \cup { CoursesFault(o) : o \in Outcomes }
    \cup { f \in { QueryFault(c, b, o) : c \in Courses, b \in Buckets, o \in Outcomes } :
             FetchAborts(f) }

(* a save that would come before the exception is known *)
SavedBySyncEarly(cur, merged, raised) == merged

(* _save_assignments is the last statement of sync(): whatever raises      *)
(* before it, or in its open(), leaves the file as it was                  *)
SavedBySync(cur, merged, raised) == IF raised THEN cur ELSE merged

(* sync() runs to the end and writes the store *)
Sync ==
    /\ Idle
    /\ ~LoadRaises(doc)
    /\ \E f \in {NoFault} \cup SkippedFaults :
       \E r \in IF f = NoFault THEN Snapshots ELSE FaultSnapshots :
       \E t \in IF f = NoFault THEN SyncDays ELSE {MaxDay - 1} :
       \E d \in SUBSET CanvasIds :
       \E cm \in CourseMaps(r, f) :
        LET up == FetchedUpcoming(r, f, cm)
            dn == FetchedDone(d, f, cm)
            m == Merge(Loaded(doc, store), CanvasUpcoming(up, t), dn, nextId)
        IN  /\ m.next <= MaxId + 1
            /\ store' = SavedBySync(store, m.rows, FALSE)
            /\ doc' = "ok"
            /\ nextId' = m.next
            /\ op' = "sync"
            /\ predoc' = doc
            /\ pre' = Loaded(doc, store)
            /\ canvas' = [courses |-> cm, upcoming |-> r, done |-> d, fault |-> f]
            /\ raw' = up
            /\ done' = dn
            /\ today' = t
            /\ req' = NoReq
            /\ summary' = [ok |-> TRUE, added |-> m.summary.added,
                           updated |-> m.summary.updated,
                           removed |-> m.summary.removed,
                           auto_completed |-> m.summary.auto_completed,
                           total_canvas |-> m.summary.total_canvas,
                           courses |-> CourseCount(cm, CanvasUpcoming(up, t))]
            /\ fired' = <<>>
            /\ status' = "ok"
            /\ steps' = steps + 1
            /\ UNCHANGED <<sent, deleted>>
            /\ UNCHANGED threadVars
            /\ UNCHANGED envVars

(* sync() raises: in _load_config, in a fetch whose exception is not       *)
(* caught, in the load of a document that is not an object, or in the      *)
(* open() of the save.  Nothing is written.                                *)
SyncRaises ==
    /\ Idle
    /\ \E f \in {NoFault} \cup AbortingFaults :
        LET m == Merge(Loaded(doc, store), <<>>, {}, nextId)
        IN  /\ f = NoFault => LoadRaises(doc)
            /\ f = SaveFault => ~LoadRaises(doc)
            /\ store' = SavedBySync(store, m.rows, TRUE)
            /\ op' = "sync"
            /\ predoc' = doc
            /\ pre' = Loaded(doc, store)
            /\ canvas' = [courses |-> {}, upcoming |-> <<>>, done |-> {}, fault |-> f]
            /\ raw' = <<>>
            /\ done' = {}
            /\ today' = 0
            /\ req' = NoReq
            /\ summary' = NoSummary
            /\ fired' = <<>>
            /\ status' = "raised"
            /\ steps' = steps + 1
            /\ UNCHANGED <<doc, nextId, sent, deleted>>
            /\ UNCHANGED threadVars
            /\ UNCHANGED envVars

SyncReturns ==
    /\ op = "sync"
    /\ Forget

(* one pass of run_checks: it returns early on a file that is not JSON,    *)
(* raises on a document that is not an object and on a due_date that is    *)
(* not a string, and swallows the IOError of its write                     *)
RunChecks ==
    /\ Idle
    /\ \E t \in Days, writeOk \in BOOLEAN :
        LET rows == Loaded(doc, store)
            sends == Notified(Sends(rows, 1, t), channels)
            changed == sends # <<>>
            raises == \/ LoadRaises(doc)
                      \/ \E i \in DOMAIN rows : DueDateRaises(rows[i])
                      \/ ChannelRaises(Sends(rows, 1, t), channels)
        IN  /\ (changed /\ ~raises) \/ writeOk
            /\ store' = SavedByPass(store, t, changed /\ writeOk /\ ~raises)
            /\ op' = "run_checks"
            /\ predoc' = doc
            /\ pre' = rows
            /\ canvas' = NoCanvas
            /\ raw' = <<>>
            /\ done' = {}
            /\ today' = t
            /\ req' = NoReq
            /\ summary' = NoSummary
            /\ fired' = sends
            /\ status' = IF raises THEN "raised"
                         ELSE IF changed /\ ~writeOk THEN "write_failed"
                         ELSE "ok"
            /\ sent' = Counted(sent, rows, sends)
            /\ pushed' = Pushes(Sends(rows, 1, t), channels)
            /\ steps' = steps + 1
            /\ UNCHANGED <<doc, nextId, channels, deleted>>
            /\ UNCHANGED threadVars

RunChecksReturns ==
    /\ op = "run_checks"
    /\ Forget

(* do_POST: a load that raises is answered with 400 and nothing is saved *)
Post ==
    /\ Idle
    /\ nextId <= MaxId
    /\ \E body \in PostBodies :
        /\ IF LoadRaises(doc)
           THEN /\ status' = "bad_request"
                /\ UNCHANGED <<doc, store, nextId>>
           ELSE /\ status' = "ok"
                /\ store' = Append(Loaded(doc, store), NewManualRow(nextId, body))
                /\ doc' = "ok"
                /\ nextId' = nextId + 1
        /\ op' = "post"
        /\ predoc' = doc
        /\ pre' = Loaded(doc, store)
        /\ req' = [kind |-> "post", body |-> body]
        /\ canvas' = NoCanvas
        /\ raw' = <<>> /\ done' = {} /\ today' = 0
        /\ summary' = NoSummary /\ fired' = <<>>
        /\ steps' = steps + 1
        /\ UNCHANGED <<sent, deleted>>
        /\ UNCHANGED threadVars
        /\ UNCHANGED envVars

(* do_PATCH: the same try / except Exception around load and save *)
Patch ==
    /\ Idle
    /\ \E aid \in Ids, body \in PatchBodies :
        /\ IF LoadRaises(doc)
           THEN /\ status' = "bad_request"
                /\ UNCHANGED <<doc, store>>
           ELSE /\ status' = "ok"
                /\ store' = Patched(Loaded(doc, store), aid, body)
                /\ doc' = "ok"
        /\ op' = "patch"
        /\ predoc' = doc
        /\ pre' = Loaded(doc, store)
        /\ req' = [kind |-> "patch", aid |-> aid, body |-> body]
        /\ canvas' = NoCanvas
        /\ raw' = <<>> /\ done' = {} /\ today' = 0
        /\ summary' = NoSummary /\ fired' = <<>>
        /\ steps' = steps + 1
        /\ UNCHANGED <<nextId, sent, deleted>>
        /\ UNCHANGED threadVars
        /\ UNCHANGED envVars

(* do_DELETE: no try around load_assignments *)
Delete ==
    /\ Idle
    /\ \E aid \in Ids :
        /\ IF LoadRaises(doc)
           THEN /\ status' = "raised"
                /\ UNCHANGED <<doc, store>>
           ELSE /\ status' = "ok"
                /\ store' = Deleted(Loaded(doc, store), aid)
                /\ doc' = "ok"
        /\ op' = "delete"
        /\ predoc' = doc
        /\ pre' = Loaded(doc, store)
        /\ req' = [kind |-> "delete", aid |-> aid]
        /\ canvas' = NoCanvas
        /\ raw' = <<>> /\ done' = {} /\ today' = 0
        /\ summary' = NoSummary /\ fired' = <<>>
        /\ steps' = steps + 1
        /\ deleted' = deleted \cup Removed(Loaded(doc, store), aid)
        /\ UNCHANGED <<nextId, sent>>
        /\ UNCHANGED threadVars
        /\ UNCHANGED envVars

Responds ==
    /\ op \in {"post", "patch", "delete"}
    /\ Forget

Next ==
    \/ Sync \/ SyncRaises \/ SyncReturns
    \/ RunChecks \/ RunChecksReturns
    \/ Post \/ Patch \/ Delete \/ Responds

Spec == Init /\ [][Next]_vars

----------------------------------------------------------------------------
(* The same machine met with a file that was written outside the program:  *)
(* text that is not JSON, JSON that is not an object, or records whose     *)
(* due_date is null, missing or no date.  One operation runs on it.        *)

GoodRow(id) ==
    NewManualRow(id, [title |-> "Essay", course |-> "ENG101", due_date |-> MaxDay - 1])

OddRow(id, due) == [GoodRow(id) EXCEPT !.due_date = due]

EditedFiles ==
    { [doc |-> "invalid_json", rows |-> <<>>], [doc |-> "not_object", rows |-> <<>>] }
    \cup { [doc |-> "ok", rows |-> rows] :
              rows \in UNION { { <<OddRow(1, due)>>,
                                 <<GoodRow(1), OddRow(2, due)>>,
                                 <<GoodRow(1), OddRow(2, due), GoodRow(3)>> } :
                               due \in {NullDate, NoDate, InvalidDate} } }

InitEdited ==
    /\ \E file \in EditedFiles :
           /\ doc = file.doc
           /\ store = file.rows
           /\ nextId = Len(file.rows) + 1
    /\ steps = MaxSteps - 1
    /\ channels = Delivering
    /\ Quiet

SpecEdited == InitEdited /\ [][Next]_vars

----------------------------------------------------------------------------
(* The machine started where Spec stands after one POST: one manual        *)
(* record in the store, nothing sent for it yet.  No sync completes from   *)
(* there on (Canvas is not configured, or cannot be reached).              *)

InitTracked ==
    /\ doc = "ok"
    /\ \E body \in PostBodies : store = <<NewManualRow(1, body)>>
    /\ nextId = 2
    /\ steps = 0
    /\ channels = Delivering
    /\ Quiet

NextOffline ==
    \/ SyncRaises \/ SyncReturns
    \/ RunChecks \/ RunChecksReturns
    \/ Post \/ Patch \/ Delete \/ Responds

SpecTracked == InitTracked /\ [][NextOffline]_vars

(* The same, on a machine whose banner command or phone push may fail *)
InitChannels ==
    /\ doc = "ok"
    /\ \E body \in PostBodies : store = <<NewManualRow(1, body)>>
    /\ nextId = 2
    /\ steps = 0
    /\ channels \in Channels
    /\ Quiet

SpecChannels == InitChannels /\ [][NextOffline]_vars

----------------------------------------------------------------------------
(* The server's sync threads and a run_checks process beside them.  Each   *)
(* step is one access to what they share: _sync_state["running"] and the   *)
(* file.                                                                   *)

Launched == thread[1].pc # "unborn"

(* between the call of canvas_sync.sync() and its return *)
InSync(t) == thread[t].pc \in {"fetching", "merging", "writing"}

(* a load that finds the file opened for writing and not yet written *)
Observed(reader) == IF doc = "invalid_json" THEN partial \cup {reader} ELSE partial

(* a write of the file by someone else than thread t lands in the file the *)
(* threads that are writing have open                                      *)
Overlap(th, t) ==
    [ u \in 1..MaxThreads |->
        IF u # t /\ th[u].pc = "writing" THEN [th[u] EXCEPT !.overlapped = TRUE]
        ELSE th[u] ]

(* run(): threading.Thread(target=_do_canvas_sync).start(), unconditional *)
Launch ==
    /\ ~Launched
    /\ thread' = [thread EXCEPT ![1] = ThreadAt("started")]
    /\ UNCHANGED <<running, checker, wrote, partial, posted>>
    /\ UNCHANGED <<sync_state, last_good>>
    /\ UNCHANGED seqVars
    /\ UNCHANGED envVars

(* POST /api/sync, start_canvas_sync(): a thread is started unless the     *)
(* flag is set; the flag itself is set by the thread, later                *)
PostSync ==
    /\ Launched
    /\ ~running
    /\ \E t \in 1..MaxThreads :
           /\ thread[t].pc = "unborn"
           /\ \A u \in 1..MaxThreads : thread[u].pc = "unborn" => t <= u
           /\ thread' = [thread EXCEPT ![t] = ThreadAt("started")]
    /\ UNCHANGED <<running, checker, wrote, partial, posted>>
    /\ UNCHANGED <<sync_state, last_good>>
    /\ UNCHANGED seqVars
    /\ UNCHANGED envVars

(* GET /api/assignments beside the threads: load_assignments *)
GetBeside ==
    /\ Launched
    /\ partial' = Observed("GET")
    /\ UNCHANGED <<running, thread, checker, wrote, posted>>
    /\ UNCHANGED <<sync_state, last_good>>
    /\ UNCHANGED seqVars
    /\ UNCHANGED envVars

(* POST /api/assignments beside the threads: load, append, save; its save  *)
(* is taken as one step                                                    *)
PostBeside ==
    /\ Launched
    /\ posted = {}
    /\ nextId <= MaxId
    /\ store' = Append(Loaded(doc, store), GoodRow(nextId))
    /\ doc' = "ok"
    /\ nextId' = nextId + 1
    /\ posted' = posted \cup {nextId}
    /\ partial' = Observed("POST")
    /\ thread' = Overlap(thread, 0)
    /\ UNCHANGED <<running, checker, wrote>>
    /\ UNCHANGED <<sync_state, last_good>>
    /\ UNCHANGED <<op, predoc, pre, canvas, raw, done, today, req, summary,
                   fired, status, sent, steps, deleted>>
    /\ UNCHANGED envVars

(* _do_canvas_sync: _sync_state["running"] = True, then sync() is called *)
ThreadBegins(t) ==
    /\ thread[t].pc = "started"
    /\ running' = TRUE
    /\ thread' = [thread EXCEPT ![t] = ThreadAt("fetching")]
    /\ UNCHANGED <<checker, wrote, partial, posted>>
    /\ UNCHANGED <<sync_state, last_good>>
    /\ UNCHANGED seqVars
    /\ UNCHANGED envVars

(* sync(): the fetches are done and line 217 loads the file *)
ThreadLoads(t) ==
    /\ thread[t].pc = "fetching"
    /\ ~LoadRaises(doc)
    /\ \E r \in FaultSnapshots, d \in SUBSET CanvasIds, day \in SyncDays :
           thread' = [thread EXCEPT ![t] =
                         [ThreadAt("merging") EXCEPT
                             !.existing = Loaded(doc, store),
                             !.upcoming = CanvasUpcoming(r, day),
                             !.done = d, !.today = day]]
    /\ partial' = Observed("sync")
    /\ UNCHANGED <<running, checker, wrote, posted>>
    /\ UNCHANGED <<sync_state, last_good>>
    /\ UNCHANGED seqVars
    /\ UNCHANGED envVars

(* sync() raises before it writes *)
ThreadRaises(t) ==
    /\ thread[t].pc = "fetching"
    /\ thread' = [thread EXCEPT ![t] = ThreadAt("raised")]
    /\ UNCHANGED <<running, checker, wrote, partial, posted>>
    /\ UNCHANGED <<sync_state, last_good>>
    /\ UNCHANGED seqVars
    /\ UNCHANGED envVars

(* _save_assignments, open(DATA_FILE, "w"): the file is emptied before a   *)
(* byte of the new document is written                                     *)
Opened(rows) == [doc |-> "invalid_json", rows |-> <<>>]

(* sync(): the merge of what was loaded, and line 285 opens the file *)
ThreadOpens(t) ==
    LET my == thread[t]
        m == Merge(my.existing, my.upcoming, my.done, nextId)
    IN  /\ my.pc = "merging"
        /\ m.next <= MaxId + 1
        /\ store' = Opened(m.rows).rows
        /\ doc' = Opened(m.rows).doc
        /\ nextId' = m.next
        /\ thread' = Overlap([thread EXCEPT ![t] =
                                 [ThreadAt("writing") EXCEPT !.rows = m.rows,
                                     !.result = m.summary]], t)
        /\ UNCHANGED <<running, checker, wrote, partial, posted>>
        /\ UNCHANGED <<sync_state, last_good>>
        /\ UNCHANGED <<op, predoc, pre, canvas, raw, done, today, req, summary,
                       fired, status, sent, steps, deleted>>
        /\ UNCHANGED envVars

(* _save_assignments, json.dump and the close: the document is in the      *)
(* file.  Written over what another writer put there in the meantime, it   *)
(* is followed by the rest of that text when that text is the longer one.  *)
ThreadDumps(t) ==
    LET my == thread[t]
    IN  /\ my.pc = "writing"
        /\ \E kind \in IF my.overlapped THEN {"ok", "invalid_json"} ELSE {"ok"} :
               /\ doc' = kind
               /\ store' = IF kind = "ok" THEN my.rows ELSE <<>>
        /\ thread' = Overlap([thread EXCEPT ![t] =
                                 [ThreadAt("returned") EXCEPT !.result = my.result]], t)
        /\ UNCHANGED <<running, checker, wrote, partial, posted>>
        /\ UNCHANGED <<sync_state, last_good>>
        /\ UNCHANGED <<nextId, op, predoc, pre, canvas, raw, done, today, req,
                       summary, fired, status, sent, steps, deleted>>
        /\ UNCHANGED envVars

(* _do_canvas_sync, line 58: _sync_state["result"] = result *)
ThreadSetsResult(t) ==
    /\ thread[t].pc = "returned"
    /\ sync_state' = [sync_state EXCEPT !.result = thread[t].result]
    /\ thread' = [thread EXCEPT ![t].pc = "resulted"]
    /\ UNCHANGED <<running, checker, wrote, partial, posted, last_good>>
    /\ UNCHANGED seqVars
    /\ UNCHANGED envVars

(* _do_canvas_sync, line 59: _sync_state["error"] = None *)
ThreadClearsError(t) ==
    /\ thread[t].pc = "resulted"
    /\ sync_state' = [sync_state EXCEPT !.error = NoMessage]
    /\ thread' = [thread EXCEPT ![t].pc = "cleared"]
    /\ UNCHANGED <<running, checker, wrote, partial, posted, last_good>>
    /\ UNCHANGED seqVars
    /\ UNCHANGED envVars

(* _do_canvas_sync, line 60: _sync_state["last_sync"] = the time now; the *)
(* try block has succeeded                                                 *)
ThreadStamps(t) ==
    /\ thread[t].pc = "cleared"
    /\ sync_state' = [sync_state EXCEPT !.last_sync = ClockTime(t)]
    /\ last_good' = [result |-> thread[t].result, last_sync |-> ClockTime(t)]
    /\ thread' = [thread EXCEPT ![t].pc = "recorded"]
    /\ UNCHANGED <<running, checker, wrote, partial, posted>>
    /\ UNCHANGED seqVars
    /\ UNCHANGED envVars

(* _do_canvas_sync, except Exception as e: _sync_state["error"] = str(e) *)
ThreadSetsError(t) ==
    /\ thread[t].pc = "raised"
    /\ sync_state' = [sync_state EXCEPT !.error = Message(t)]
    /\ thread' = [thread EXCEPT ![t].pc = "failed"]
    /\ UNCHANGED <<running, checker, wrote, partial, posted, last_good>>
    /\ UNCHANGED seqVars
    /\ UNCHANGED envVars

(* _do_canvas_sync: finally: _sync_state["running"] = False *)
ThreadEnds(t) ==
    /\ thread[t].pc \in {"recorded", "failed"}
    /\ running' = FALSE
    /\ thread' = [thread EXCEPT ![t] = ThreadAt("finished")]
    /\ UNCHANGED <<checker, wrote, partial, posted>>
    /\ UNCHANGED <<sync_state, last_good>>
    /\ UNCHANGED seqVars
    /\ UNCHANGED envVars

(* run_checks in its own process: json.load *)
CheckerLoads ==
    /\ checker.pc = "absent"
    /\ ~LoadRaises(doc)
    /\ \E day \in Days :
           checker' = CheckerAt("loaded", Loaded(doc, store), day)
    /\ partial' = Observed("run_checks")
    /\ UNCHANGED <<running, thread, wrote, posted>>
    /\ UNCHANGED <<sync_state, last_good>>
    /\ UNCHANGED seqVars
    /\ UNCHANGED envVars

(* run_checks: the loop, and json.dump of the data it loaded if changed;   *)
(* its write is taken as one step                                          *)
CheckerWrites ==
    LET data == checker.data
        sends == Sends(data, 1, checker.today)
    IN  /\ checker.pc = "loaded"
        /\ \A i \in DOMAIN data : ~DueDateRaises(data[i])
        /\ store' = IF sends # <<>>
                    THEN [i \in DOMAIN data |-> CheckedRow(data[i], checker.today)]
                    ELSE store
        /\ doc' = IF sends # <<>> THEN "ok" ELSE doc
        /\ thread' = IF sends # <<>> THEN Overlap(thread, 0) ELSE thread
        /\ wrote' = wrote \cup { <<sends[k].id, sends[k].tag>> : k \in DOMAIN sends }
        /\ checker' = CheckerAt("done", <<>>, checker.today)
        /\ UNCHANGED <<running, partial, posted>>
        /\ UNCHANGED <<sync_state, last_good>>
        /\ UNCHANGED <<nextId, op, predoc, pre, canvas, raw, done, today, req,
                       summary, fired, status, sent, steps, deleted>>
        /\ UNCHANGED envVars

NextThreads ==
    \/ Launch
    \/ PostSync
    \/ GetBeside
    \/ PostBeside
    \/ \E t \in 1..MaxThreads : ThreadBegins(t)
    \/ \E t \in 1..MaxThreads : ThreadLoads(t)
    \/ \E t \in 1..MaxThreads : ThreadRaises(t)
    \/ \E t \in 1..MaxThreads : ThreadOpens(t)
    \/ \E t \in 1..MaxThreads : ThreadDumps(t)
    \/ \E t \in 1..MaxThreads : ThreadSetsResult(t)
    \/ \E t \in 1..MaxThreads : ThreadClearsError(t)
    \/ \E t \in 1..MaxThreads : ThreadStamps(t)
    \/ \E t \in 1..MaxThreads : ThreadSetsError(t)
    \/ \E t \in 1..MaxThreads : ThreadEnds(t)
    \/ CheckerLoads
    \/ CheckerWrites

SpecThreads == Init /\ [][NextThreads]_vars

----------------------------------------------------------------------------
(* What the claims speak of, in terms of the last call *)

SyncOk == op = "sync" /\ status = "ok"

Upcoming == CanvasUpcoming(raw, today)

UpcomingIds == { Upcoming[i].canvas_id : i \in DOMAIN Upcoming }

HasCanvasId(row) == row.canvas_id # NoCanvasId

Present(rows, id) == \E j \in DOMAIN rows : rows[j].id = id

WithoutCanvasId(rows) == SelectSeq(rows, LAMBDA row : ~HasCanvasId(row))

TagsOf(row) == { row.notifications_sent[k] : k \in DOMAIN row.notifications_sent }

(* C1: a sync that completes writes the rows without canvas_id back as    *)
(* they were loaded: same rows, same fields, same order, none added.       *)
C1_ManualRowsPassThrough ==
    SyncOk => WithoutCanvasId(store) = WithoutCanvasId(pre)

C1_Witness ==
    /\ SyncOk
    /\ WithoutCanvasId(pre) # <<>>
    /\ summary.added > 0
    /\ \E i \in DOMAIN pre : ~HasCanvasId(pre[i]) /\ pre[i].completed

(* C2: after a sync that completes, no two rows of the store carry the     *)
(* same canvas_id.                                                         *)
C2_DistinctCanvasIds ==
    SyncOk =>
        \A i, j \in DOMAIN store :
            (HasCanvasId(store[i]) /\ store[i].canvas_id = store[j].canvas_id)
                => i = j

(* C3: sync and run_checks keep every completed record, still completed.   *)
C3_CompletedStays ==
    op \in {"sync", "run_checks"} =>
        \A i \in DOMAIN pre :
            pre[i].completed =>
                \E j \in DOMAIN store :
                    store[j].id = pre[i].id /\ store[j].completed

(* C4: sync removes a record with a canvas_id exactly when the canvas_id   *)
(* is not upcoming, not submitted/graded, and the record is not completed. *)
C4_RemovedIff ==
    SyncOk =>
        \A i \in DOMAIN pre :
            HasCanvasId(pre[i]) =>
                ( ~Present(store, pre[i].id)
                  <=> ( /\ pre[i].canvas_id \notin UpcomingIds
                        /\ pre[i].canvas_id \notin done
                        /\ ~pre[i].completed ) )

(* the days before the due date at which each tag is due to be sent *)
DaysBefore(tag) ==
    CASE tag = "3_days" -> 3
      [] tag = "1_day" -> 1
      [] tag = "morning" -> 0

Parseable(row) == row.due_date \notin {InvalidDate, NullDate, NoDate}

SentFor(i, tag) == \E k \in DOMAIN fired : fired[k].pos = i /\ fired[k].tag = tag

(* C5: whatever today is, a pass never sends a tag that the store it       *)
(* loaded already records for that record.                                 *)
C5_StoredTagNotResent ==
    op = "run_checks" =>
        \A k \in DOMAIN fired : \A i \in DOMAIN pre :
            pre[i].id = fired[k].id => fired[k].tag \notin TagsOf(pre[i])

C5_Witness ==
    /\ op = "run_checks"
    /\ \E i \in DOMAIN pre : \E tag \in Tags :
           /\ Parseable(pre[i])
           /\ pre[i].due_date - today = DaysBefore(tag)
           /\ tag \in TagsOf(pre[i])

C7_PastDueUntouched ==
    op = "run_checks" =>
        \A i \in DOMAIN pre :
            (Parseable(pre[i]) /\ pre[i].due_date < today) =>
                /\ \A k \in DOMAIN fired : fired[k].pos # i
                /\ i \in DOMAIN store
                /\ store[i].notifications_sent = pre[i].notifications_sent

C7_Witness ==
    /\ op = "run_checks"
    /\ status = "ok"
    /\ fired # <<>>
    /\ \E i \in DOMAIN pre : Parseable(pre[i]) /\ pre[i].due_date < today

(* C8: no call removes a tag from the notifications_sent of a record that  *)
(* is still in the store after it.                                         *)
C8_TagsNeverLost ==
    op # "idle" =>
        \A i \in DOMAIN pre : \A j \in DOMAIN store :
            pre[i].id = store[j].id => TagsOf(pre[i]) \subseteq TagsOf(store[j])

C8_Witness ==
    /\ SyncOk
    /\ \E i \in DOMAIN pre : \E j \in DOMAIN store :
           /\ pre[i].id = store[j].id
           /\ pre[i].notifications_sent # <<>>
           /\ pre[i].title # store[j].title

(* C9: a record whose canvas_id is not upcoming but is submitted/graded is *)
(* kept and completed, and auto_completed counts those that were not       *)
(* completed before.                                                       *)
C9_SubmittedKeptAndCounted ==
    SyncOk =>
        LET gone == { i \in DOMAIN pre :
                        /\ HasCanvasId(pre[i])
                        /\ pre[i].canvas_id \notin UpcomingIds
                        /\ pre[i].canvas_id \in done }
        IN  /\ \A i \in gone :
                   \E j \in DOMAIN store :
                       store[j].id = pre[i].id /\ store[j].completed
            /\ summary.auto_completed
                   = Cardinality({ i \in gone : ~pre[i].completed })

(* C10: every upcoming entry that matches a stored record leaves that      *)
(* record in the store with the entry's title, course and due_date and     *)
(* its other fields as loaded, and updated counts the matched records that *)
(* differed from their entry.                                              *)
C10_MatchedRowRefreshed ==
    SyncOk =>
        LET matches == { p \in (DOMAIN pre) \X (DOMAIN Upcoming) :
                            pre[p[1]].canvas_id = Upcoming[p[2]].canvas_id }
            differs(p) ==
                \/ pre[p[1]].title # Upcoming[p[2]].title
                \/ pre[p[1]].course # Upcoming[p[2]].course
                \/ pre[p[1]].due_date # Upcoming[p[2]].due_date
        IN  /\ \A p \in matches :
                   \E j \in DOMAIN store :
                       /\ store[j].id = pre[p[1]].id
                       /\ store[j].canvas_id = pre[p[1]].canvas_id
                       /\ store[j].completed = pre[p[1]].completed
                       /\ store[j].notifications_sent = pre[p[1]].notifications_sent
                       /\ store[j].title = Upcoming[p[2]].title
                       /\ store[j].course = Upcoming[p[2]].course
                       /\ store[j].due_date = Upcoming[p[2]].due_date
            /\ summary.updated
                   = Cardinality({ i \in DOMAIN pre :
                                     \E p \in matches : p[1] = i /\ differs(p) })

(* C11: a sync that completes adds, for every upcoming canvas_id that no   *)
(* loaded record carries, exactly one record with that canvas_id, not      *)
(* completed, with no tag, whose id no other record has; added counts the  *)
(* records created.                                                        *)
C11_UnmatchedEntryAddsOne ==
    SyncOk =>
        LET known == { pre[i].canvas_id : i \in DOMAIN pre }
            created == { j \in DOMAIN store : ~Present(pre, store[j].id) }
        IN  /\ \A c \in UpcomingIds \ known :
                   \E j \in DOMAIN store :
                       /\ store[j].canvas_id = c
                       /\ ~store[j].completed
                       /\ store[j].notifications_sent = <<>>
                       /\ \A k \in DOMAIN store :
                              k # j => /\ store[k].id # store[j].id
                                       /\ store[k].canvas_id # c
            /\ summary.added = Cardinality(created)

C13_FailedQuerySkipped ==
    (op = "sync" /\ canvas.fault.at = "query") =>
        /\ status = "ok"
        /\ summary.ok
        /\ canvas.fault.bucket = "upcoming" =>
               raw = SelectSeq(canvas.upcoming,
                               LAMBDA a : a.course # canvas.fault.course)
        /\ canvas.fault.bucket # "upcoming" => raw = canvas.upcoming

(* C14: a 401 on any request, the course list or a per-course one, makes   *)
(* the sync raise and leaves the store as it was.                          *)
C14_UnauthorizedIsFatal ==
    (op = "sync" /\ canvas.fault.outcome = "unauthorized") =>
        /\ status = "raised"
        /\ store = pre

(* C15: a record whose due_date is missing, not a string or no date is     *)
(* skipped on its own: the pass does not raise, and every other record     *)
(* with a date not past is sent its milestone exactly when it is due and   *)
(* not recorded, the tags sent being in the written store.                 *)
C15_OddDueDateSkipped ==
    (op = "run_checks" /\ predoc = "ok") =>
        /\ status # "raised"
        /\ \A i \in DOMAIN pre : \A tag \in Tags :
               (Parseable(pre[i]) /\ pre[i].due_date - today >= 0) =>
                   /\ SentFor(i, tag) <=>
                          ( /\ pre[i].due_date - today = DaysBefore(tag)
                            /\ tag \notin TagsOf(pre[i]) )
                   /\ (SentFor(i, tag) /\ status = "ok") =>
                          tag \in TagsOf(store[i])

(* C16: a file that is not JSON, or is JSON but not an object with an      *)
(* assignments list, is read as an empty list by sync, by the handler and  *)
(* by run_checks: none of them raises or answers with an error.            *)
C16_UnusableDocReadsEmpty ==
    (op # "idle" /\ predoc # "ok" /\ canvas.fault = NoFault) =>
        /\ pre = <<>>
        /\ status = "ok"

(* how many times a tag was sent for one id, for one canvas_id *)
SentToId(id, tag) ==
    LET F[c \in -1..MaxCid] == IF c = -1 THEN 0 ELSE F[c - 1] + sent[<<id, c, tag>>]
    IN  F[MaxCid]

SentToCanvasId(c, tag) ==
    LET F[id \in 0..MaxId] == IF id = 0 THEN 0 ELSE F[id - 1] + sent[<<id, c, tag>>]
    IN  F[MaxId]

(* C17: whatever writes fail, a milestone of a record is sent at most      *)
(* twice.                                                                  *)
C17_SentAtMostTwice ==
    \A id \in Ids : \A tag \in Tags : SentToId(id, tag) <= 2

(* C18: over any sequence of syncs and passes, a milestone is sent at most *)
(* once for a canvas_id.                                                   *)
C18_OncePerCanvasId ==
    \A c \in CanvasIds : \A tag \in Tags : SentToCanvasId(c, tag) <= 1

(* C19: at no instant are two executions of sync() in progress.            *)
C19_OneSyncAtATime ==
    Cardinality({ t \in 1..MaxThreads : InSync(t) }) <= 1

(* C20: once the pass and every sync have finished, each tag the pass      *)
(* wrote is in the record it was written to, if that record is still in    *)
(* the store.                                                              *)
C20_WrittenTagSurvives ==
    ( /\ checker.pc = "done"
      /\ \A t \in 1..MaxThreads : thread[t].pc \in {"unborn", "finished"} ) =>
        \A w \in wrote : \A j \in DOMAIN store :
            store[j].id = w[1] => w[2] \in TagsOf(store[j])

(* C23 (as stated): the summary's courses is the number of distinct course *)
(* names among the entries of the filtered upcoming list.                  *)
C23_CoursesCountsUpcomingNames ==
    SyncOk => summary.courses =
                  Cardinality({ Upcoming[i].course : i \in DOMAIN Upcoming })

(* C23: the summary's courses is the number of courses in the course map   *)
(* built from the course list, whether or not any assignment of a course   *)
(* is in the filtered upcoming list.                                       *)
C23_CoursesIsCourseMapSize ==
    SyncOk => summary.courses = Cardinality(canvas.courses)

C23_Witness ==
    /\ SyncOk
    /\ summary.courses = 2
    /\ Len(Upcoming) = 1

(* the number of rows of a list that carry a canvas_id *)
CanvasRowCount(rows) == Len(SelectSeq(rows, HasCanvasId))

(* C24: after a sync that completes, total_canvas is the number of rows    *)
(* with a canvas_id in the written store, and it is the number of such     *)
(* rows before the sync plus added minus removed.                          *)
C24_TotalCanvasBalances ==
    SyncOk =>
        /\ summary.total_canvas = CanvasRowCount(store)
        /\ summary.total_canvas =
               CanvasRowCount(pre) + summary.added - summary.removed

(* positions of the loaded rows for which a milestone fired in the pass *)
FiredAt == { fired[k].pos : k \in DOMAIN fired }

(* C25: run_checks writes the store exactly when a milestone fired in the  *)
(* pass, and a pass that writes leaves every row for which nothing fired   *)
(* with the fields and values it was loaded with.                          *)
C25_WritesIffFired ==
    op = "run_checks" =>
        /\ fired = <<>> => store = pre
        /\ fired # <<>> => status \in {"ok", "write_failed"}
        /\ (fired # <<>> /\ status = "ok") =>
               /\ Len(store) = Len(pre)
               /\ \A i \in DOMAIN pre :
                      IF i \in FiredAt THEN store[i] # pre[i]
                                       ELSE store[i] = pre[i]

(* what a second sync() would do with the store the finished one wrote,    *)
(* given the same fetched lists on the same day                            *)
SecondSync == Merge(store, Upcoming, done, nextId)

(* C26: a second sync against the same remote snapshot, with no other      *)
(* change of the store in between, writes the store the first one wrote    *)
(* and reports added = updated = removed = auto_completed = 0.             *)
C26_SecondSyncChangesNothing ==
    SyncOk =>
        /\ SecondSync.rows = store
        /\ SecondSync.summary.added = 0
        /\ SecondSync.summary.updated = 0
        /\ SecondSync.summary.removed = 0
        /\ SecondSync.summary.auto_completed = 0

(* a fetched entry sync leaves out of canvas_upcoming: no due date, a due   *)
(* date that does not parse, or a local due date before today               *)
FilteredOut(a) ==
    \/ _parse_due_date(a.due_at) = InvalidDate
    \/ _parse_due_date(a.due_at) < today

(* the canvas_ids all of whose fetched entries are left out *)
FilteredIds ==
    { c \in CanvasIds :
        /\ \E i \in DOMAIN raw : raw[i].id = c
        /\ \A i \in DOMAIN raw : raw[i].id = c => FilteredOut(raw[i]) }

(* C27: a fetched upcoming entry with no due date, an unparseable due date *)
(* or a local due date before today creates no record and updates none; a  *)
(* stored record with such an entry stays only if its canvas_id is         *)
(* submitted/graded or the record is completed.                            *)
C27_FilteredEntryIgnored ==
    SyncOk =>
        \A c \in FilteredIds :
            /\ \A j \in DOMAIN store :
                   store[j].canvas_id = c =>
                       \E i \in DOMAIN pre :
                           /\ pre[i].id = store[j].id
                           /\ pre[i].canvas_id = c
                           /\ pre[i].title = store[j].title
                           /\ pre[i].course = store[j].course
                           /\ pre[i].due_date = store[j].due_date
            /\ \A i \in DOMAIN pre :
                   (pre[i].canvas_id = c /\ Present(store, pre[i].id)) =>
                       (c \in done \/ pre[i].completed)

C27_Witness ==
    /\ SyncOk
    /\ \E c \in FilteredIds : \E i \in DOMAIN pre :
           /\ pre[i].canvas_id = c
           /\ ~pre[i].completed
           /\ c \notin done
           /\ ~Present(store, pre[i].id)
    /\ \E c \in FilteredIds : \E i \in DOMAIN raw :
           raw[i].id = c /\ raw[i].due_at = NullDueAt

(* C29: a stored record whose canvas_id is both in the upcoming list and   *)
(* in the submitted/graded set is kept with its completed flag as loaded,  *)
(* and auto_completed counts only records whose canvas_id is not upcoming. *)
C29_UpcomingWinsOverSubmitted ==
    SyncOk =>
        /\ \A i \in DOMAIN pre :
               (HasCanvasId(pre[i]) /\ pre[i].canvas_id \in UpcomingIds
                    /\ pre[i].canvas_id \in done) =>
                   \E j \in DOMAIN store :
                       /\ store[j].id = pre[i].id
                       /\ store[j].completed = pre[i].completed
        /\ summary.auto_completed <=
               Cardinality({ i \in DOMAIN pre :
                               /\ HasCanvasId(pre[i])
                               /\ pre[i].canvas_id \notin UpcomingIds
                               /\ pre[i].canvas_id \in done
                               /\ ~pre[i].completed })

(* the canvas_ids Canvas holds as upcoming in the courses other than the   *)
(* one whose request failed                                                *)
UpcomingElsewhere ==
    { canvas.upcoming[k].id :
        k \in { n \in DOMAIN canvas.upcoming :
                  canvas.upcoming[n].course # canvas.fault.course } }

(* C30: when the upcoming request of a course fails in a sync that         *)
(* completes, every stored record of that course with a canvas_id, not     *)
(* completed and not submitted/graded, is removed from the store.          *)
C30_FailedFetchRemoves ==
    (SyncOk /\ canvas.fault.at = "query" /\ canvas.fault.bucket = "upcoming") =>
        \A i \in DOMAIN pre :
            ( /\ pre[i].course = canvas.fault.course
              /\ HasCanvasId(pre[i])
              /\ ~pre[i].completed
              /\ pre[i].canvas_id \notin done
              /\ pre[i].canvas_id \notin UpcomingElsewhere )
                => ~Present(store, pre[i].id)

C30_Witness ==
    /\ SyncOk
    /\ canvas.fault.at = "query"
    /\ canvas.fault.bucket = "upcoming"
    /\ \E i \in DOMAIN pre : \E k \in DOMAIN canvas.upcoming :
           /\ canvas.upcoming[k].id = pre[i].canvas_id
           /\ canvas.upcoming[k].course = canvas.fault.course
           /\ pre[i].course = canvas.fault.course
           /\ ~pre[i].completed
           /\ pre[i].canvas_id \notin done
           /\ ~Present(store, pre[i].id)
           /\ summary.removed >= 1

(* C22: neither channel's failure stops a reminder: in every pass each     *)
(* milestone that is due and not recorded is handled, pushed to the phone  *)
(* when a bark_key is set, and recorded, and the pass does not raise.      *)
C22_ChannelFailureContained ==
    op = "run_checks" =>
        /\ status # "raised"
        /\ \A i \in DOMAIN pre : \A tag \in Tags :
               ( /\ Parseable(pre[i])
                 /\ pre[i].due_date - today = DaysBefore(tag)
                 /\ tag \notin TagsOf(pre[i]) ) =>
                   /\ SentFor(i, tag)
                   /\ channels.phone # "off" =>
                          \E k \in DOMAIN pushed :
                              pushed[k].pos = i /\ pushed[k].tag = tag
                   /\ status = "ok" => tag \in TagsOf(store[i])

(* C21: no reader of the store (GET, the load of POST, the load of sync,   *)
(* run_checks) loads the file while a save has it open and unwritten: each *)
(* sees the whole document of before the save or the whole one after it.   *)
C21_NoPartialDocumentRead ==
    partial = {}

(* C28: once every sync thread has finished, with no pass of run_checks    *)
(* under way, every record a POST created is in the store (no DELETE is    *)
(* issued here).                                                           *)
C28_PostedRecordSurvivesSync ==
    ( /\ \E t \in 1..MaxThreads : thread[t].pc = "finished"
      /\ \A t \in 1..MaxThreads : thread[t].pc \in {"unborn", "finished"}
      /\ checker.pc = "absent"
      /\ doc = "ok" ) =>
        \A id \in posted : Present(store, id)

(* C37: in every state reached from the empty store through POST, PATCH,   *)
(* DELETE, sync and run_checks, a record has source "canvas" exactly when  *)
(* it has a canvas_id.                                                     *)
C37_SourceMirrorsCanvasId ==
    \A i \in DOMAIN store :
        (store[i].source = "canvas") <=> HasCanvasId(store[i])

C37_Witness ==
    /\ op = "patch"
    /\ status = "ok"
    /\ \E i \in DOMAIN store : HasCanvasId(store[i]) /\ store[i].completed
    /\ \E i \in DOMAIN store : ~HasCanvasId(store[i])

(* the position of the first loaded row with the id of the request *)
FirstWithId(i) ==
    /\ pre[i].id = req.aid
    /\ \A j \in DOMAIN pre : pre[j].id = req.aid => i <= j

(* C34: PATCH changes the completed flag of the first record with the id   *)
(* and nothing else, DELETE removes the records with the id and nothing    *)
(* else, and with an id no record has both leave the list as it was.       *)
C34_PatchDeleteFrame ==
    /\ (op = "patch" /\ status = "ok") =>
           /\ Len(store) = Len(pre)
           /\ \A i \in DOMAIN pre :
                  IF FirstWithId(i) /\ req.body # "absent"
                  THEN store[i] = [pre[i] EXCEPT !.completed = (req.body = "true")]
                  ELSE store[i] = pre[i]
    /\ (op = "delete" /\ status = "ok") =>
           /\ store = SelectSeq(pre, LAMBDA a : a.id # req.aid)
           /\ (\A i \in DOMAIN pre : pre[i].id # req.aid) => store = pre

C34_Witness ==
    /\ op = "patch"
    /\ status = "ok"
    /\ \E i, j \in DOMAIN pre :
           /\ i < j
           /\ pre[i].id = req.aid
           /\ pre[j].id = req.aid
           /\ store[i].completed # pre[i].completed
           /\ store[j] = pre[j]

(* the loaded rows with every completed flag turned over *)
Flipped(rows) == [ i \in DOMAIN rows |-> [rows[i] EXCEPT !.completed = ~@] ]

(* C32: a pass of run_checks leaves every completed flag as loaded; one    *)
(* that does not raise sends the milestone of a completed record that is   *)
(* due and not recorded; and every pass sends what it would send were      *)
(* every completed flag the other way.                                     *)
C32_CompletedIgnoredByPass ==
    op = "run_checks" =>
        /\ Len(store) = Len(pre)
        /\ \A i \in DOMAIN pre : store[i].completed = pre[i].completed
        /\ \A i \in DOMAIN pre : \A tag \in Tags :
               ( /\ status # "raised"
                 /\ pre[i].completed
                 /\ Parseable(pre[i])
                 /\ pre[i].due_date - today = DaysBefore(tag)
                 /\ tag \notin TagsOf(pre[i]) ) => SentFor(i, tag)
        /\ fired = Notified(Sends(Flipped(pre), 1, today), channels)

C32_Witness ==
    /\ op = "run_checks"
    /\ status = "ok"
    /\ \E i \in DOMAIN pre :
           /\ pre[i].completed
           /\ SentFor(i, "3_days")
           /\ "3_days" \in TagsOf(store[i])
           /\ store[i].completed

(* C31: a pass of run_checks that stops before its write, or whose write   *)
(* fails, leaves the store as loaded; a tag the store gains is one the     *)
(* pass sent for that record; and the one write holds every tag sent.      *)
C31_TagsWrittenOnceAfterSend ==
    op = "run_checks" =>
        /\ status \in {"raised", "write_failed"} => store = pre
        /\ Len(store) = Len(pre)
        /\ \A i \in DOMAIN pre : \A tag \in Tags :
               (tag \in TagsOf(store[i]) /\ tag \notin TagsOf(pre[i]))
                   => SentFor(i, tag)
        /\ status = "ok" =>
               \A k \in DOMAIN fired :
                   fired[k].tag \in TagsOf(store[fired[k].pos])

C31_Witness ==
    /\ op = "run_checks"
    /\ status = "raised"
    /\ fired # <<>>
    /\ store = pre

(* C33: after DELETE removed a record with a canvas_id, the next sync that *)
(* completes with that canvas_id in its upcoming list writes a record for  *)
(* it with a new id, not completed, with no tag recorded.                  *)
C33_DeletedIsRecreated ==
    SyncOk =>
        \A g \in deleted :
            g[2] \in UpcomingIds =>
                \E j \in DOMAIN store :
                    /\ store[j].canvas_id = g[2]
                    /\ store[j].id # g[1]
                    /\ \A i \in DOMAIN pre : pre[i].id # store[j].id
                    /\ ~store[j].completed
                    /\ store[j].notifications_sent = <<>>

(* a sync has been started and has not finished: from Thread.start() to    *)
(* the end of _do_canvas_sync                                              *)
InProgress(t) == thread[t].pc \notin {"unborn", "finished"}

(* C35: _sync_state["running"] is true exactly while a sync that has been  *)
(* started has not finished.                                               *)
C35_RunningIffSyncInProgress ==
    running <=> \E t \in 1..MaxThreads : InProgress(t)

----------------------------------------------------------------------------
(* C36: the step that ends the except clause of a sync thread leaves its   *)
(* own failure message in _sync_state.error, with result and last_sync     *)
(* those of the last sync that succeeded; the step that ends the three     *)
(* assignments made after sync() returned leaves error None and that       *)
(* sync's summary in result.                                               *)
C36_SyncStateAfterSync ==
    [][\A t \in 1..MaxThreads :
           /\ thread[t].pc = "raised" /\ thread'[t].pc = "failed" =>
                  /\ sync_state'.error = Message(t)
                  /\ sync_state'.result = last_good.result
                  /\ sync_state'.last_sync = last_good.last_sync
           /\ thread[t].pc = "cleared" /\ thread'[t].pc = "recorded" =>
                  /\ sync_state'.error = NoMessage
                  /\ sync_state'.result = thread[t].result]_vars
====
